---- MODULE Spec2Model ----
(***************************************************************************)
(* A model of catboost/datasets.py: the integrity-checked downloader       *)
(* (_cached_download), the directory helper (_ensure_dir_exists), the      *)
(* archive extractor (_extract), the cached loader                         *)
(* (_cached_dataset_load) and the accessors titanic, amazon, msrank and    *)
(* adult.  The file system is a map from the paths the module touches to   *)
(* what is stored there; a process is a record holding its position in     *)
(* the code, its locals and what it did in its current call.               *)
(***************************************************************************)
EXTENDS Integers, Sequences, FiniteSets, TLC

VARIABLES fs, pr, dataset

vars == <<fs, pr, dataset>>

(* ------------------------------ bounds -------------------------------- *)

\* file contents are 0..MaxContent; 0 is the empty (or truncated) file
MaxContent == 2
\* longest list of mirror URLs handed to a direct _cached_download call
MaxUrls == 1
\* top-level calls one process makes
MaxCalls == 2

(* ------------------------- files and contents ------------------------- *)

Contents == 0..MaxContent

Absent == [kind |-> "absent", data |-> 0]
Dir == [kind |-> "dir", data |-> 0]
File(c) == [kind |-> "file", data |-> c]

Files == {File(c) : c \in Contents}

\* the temporary file tempfile.mkstemp() hands to process p
TmpPath(p) == IF p = 1 THEN "tmp1" ELSE "tmp2"

Paths == {"dir", "train", "test", "dst", "tmp1", "tmp2"}

Members == {"train", "test"}

\* the processes that can run the module; DOMAIN pr are those that do
Procs == {1, 2}

Archives == {"titanic", "amazon", "msrank"}

Datasets == Archives \cup {"adult"}

\* hashlib.md5 of a content, as a digest number (one digest per content)
Md5Of(c) == MaxContent - c

\* os.path.isfile / os.path.isdir / os.path.exists
isfile(f, path) == f[path].kind = "file"

isdir(f, path) == f[path].kind = "dir"

exists(f, path) == f[path].kind # "absent"

_calc_md5(f, path) == Md5Of(f[path].data)

\* the content the hard-coded md5 of a file is the digest of
Genuine(ds, which) == IF ds = "adult" /\ which = "test" THEN 2 ELSE 1

Md5Expected(ds, which) == Md5Of(Genuine(ds, which))

header(ds) == IF ds = "msrank" THEN "None" ELSE IF ds = "adult" THEN "names" ELSE "infer"

(* ------------------------------ the network --------------------------- *)

\* what a URL does when urlretrieve is pointed at it
Serve(c) == [kind |-> "serve", data |-> c]
Refused == [kind |-> "refused", data |-> 0]
Broken == [kind |-> "broken", data |-> 0]

Behaviours == {Serve(c) : c \in Contents} \cup {Refused, Broken}

Failed(u) == u.kind # "serve"

UrlLists == UNION {[1..n -> Behaviours] : n \in 0..MaxUrls}

\* urlretrieve(u, dst): a served body replaces dst, a transfer broken half-way
\* leaves a truncated dst, a refused connection leaves dst as it was
urlretrieve(old, u) ==
    IF u.kind = "serve" THEN File(u.data)
    ELSE IF u.kind = "broken" THEN File(0)
    ELSE old

\* the exception a failing urlretrieve raises
TransferError(u) == IF u.kind = "refused" THEN "URLError" ELSE "IOError"

\* `import urllib` binds the package, which has no attribute URLError
\* (the class is urllib.error.URLError, or urllib2.URLError on Python 2)
UrllibHasURLError == FALSE

\* `except (urllib.URLError, IOError)`: the tuple is evaluated when an
\* exception reaches the clause; the outcome is "caught" or what propagates
ExceptClause(e) ==
    IF ~UrllibHasURLError THEN "AttributeError"
    ELSE IF e \in {"URLError", "IOError"} THEN "caught"
    ELSE e

(* ------------------------------ processes ----------------------------- *)

\* the cache of the dataset holds the genuine train and test files
CacheValid(f) ==
    /\ isdir(f, "dir")
    /\ f["train"] = File(Genuine(dataset, "train"))
    /\ f["test"] = File(Genuine(dataset, "test"))

NoResult == [train |-> [rows |-> 0, header |-> "none"], test |-> [rows |-> 0, header |-> "none"]]

\* what a process remembers of the call before its current one
NoCall == [op |-> "none", valid0 |-> FALSE, exc |-> "none", result |-> NoResult]

IdleProc ==
    [pc |-> "idle", op |-> "none", ret |-> "top", pend |-> "none",
     cwd |-> "home", cur_dir |-> "home",
     urls |-> <<>>, idx |-> 0, tried |-> <<>>, md5 |-> 0, dst |-> "dst",
     dst0 |-> Absent,
     src |-> "dst", xdir |-> "dir", member |-> "none", done |-> {},
     mk |-> "none", calls |-> 0, did |-> {}, trainTried |-> <<>>,
     fs0 |-> [q \in Paths |-> Absent], exc |-> "none", result |-> NoResult,
     prev |-> NoCall]

Set(p, r) == pr' = [pr EXCEPT ![p] = r]

\* the call ends: normally (e = "none") or by raising e
Finish(r, e) == [r EXCEPT !.pc = "idle", !.exc = e, !.ret = "top", !.pend = "none"]

\* a callee returns to its caller
Resume(r) ==
    IF r.ret = "top" THEN Finish(r, "none")
    ELSE [r EXCEPT !.pc = r.ret, !.ret = "top"]

\* lines 84-88 without the try/finally: os.remove is skipped when the
\* download or the extraction raises
Raise_nofinally(r, e) == Finish(r, e)

\* lines 84-88 with the download's exception swallowed: the extraction runs
\* on whatever the download left
Raise_swallowed(r, e) ==
    IF r.ret = "ld_extract" THEN [r EXCEPT !.pc = "ld_extract", !.ret = "top"]
    ELSE IF r.ret = "ld_finally" THEN [r EXCEPT !.pc = "ld_finally", !.pend = e, !.ret = "top"]
    ELSE Finish(r, e)

\* a callee raises e: _cached_dataset_load's try/finally (lines 84-88) takes
\* it to os.remove; every other caller lets it propagate
Raise(r, e) ==
    IF r.ret \in {"ld_extract", "ld_finally"}
    THEN [r EXCEPT !.pc = "ld_finally", !.pend = e, !.ret = "top"]
    ELSE Finish(r, e)

\* what is kept of a finished call: an accessor's call on a valid cache is
\* remembered with its outcome, a _cached_dataset_load call that a failed
\* download ended with its exception, any other call is forgotten
Summary(r) ==
    IF r.op \in {"load", "adult"} /\ CacheValid(r.fs0)
    THEN [op |-> r.op, valid0 |-> TRUE, exc |-> r.exc, result |-> r.result]
    ELSE IF r.op = "load" /\ r.exc \in {"AttributeError", "RuntimeError_download", "RuntimeError_md5"}
    THEN [op |-> r.op, valid0 |-> FALSE, exc |-> r.exc, result |-> NoResult]
    ELSE NoCall

\* a process starts a top-level call: the previous call becomes history
NewCall(r, f, opname) ==
    [r EXCEPT !.op = opname, !.ret = "top", !.pend = "none",
              !.urls = <<>>, !.idx = 0, !.tried = <<>>, !.md5 = 0,
              !.dst = "dst", !.dst0 = Absent, !.src = "dst", !.xdir = "dir",
              !.member = "none", !.done = {}, !.mk = "none",
              !.calls = r.calls + 1, !.did = {}, !.trainTried = <<>>, !.fs0 = f,
              !.exc = "none", !.result = NoResult,
              !.prev = Summary(r)]

\* _get_cache_path() is rooted at os.getcwd(): the paths "dir", "train" and
\* "test" are the cache of a process whose working directory is "home"
CanCall(p) ==
    /\ p \in DOMAIN pr
    /\ pr[p].pc = "idle" /\ pr[p].calls < MaxCalls /\ pr[p].cwd = "home"

\* process p is at label l of the code
At(p, l) == p \in DOMAIN pr /\ pr[p].pc = l

(* --------------------------- _cached_download ------------------------- *)

\* line 49 without its early return: the download always runs
CacheHit_never(f, dst, md5) == FALSE

\* line 49 without the checksum comparison: any file at dst is accepted
CacheHit_anyfile(f, dst, md5) == isfile(f, dst)

\* line 49: the file is there and its checksum is the expected one
CacheHit(f, dst, md5) == isfile(f, dst) /\ _calc_md5(f, dst) = md5

\* line 67 without the comparison: whatever was downloaded is accepted
Mismatch_skipped(f, dst, md5) == FALSE

\* line 67 with == for !=: a matching download is rejected, any other accepted
Mismatch_inverted(f, dst, md5) == _calc_md5(f, dst) = md5

\* line 67: the downloaded file does not have the expected checksum
Mismatch(f, dst, md5) == _calc_md5(f, dst) # md5

Call_cached_download(p) ==
    /\ CanCall(p)
    /\ \E us \in UrlLists :
         Set(p, [NewCall(pr[p], fs, "download") EXCEPT
                   !.pc = "cd_check", !.urls = us, !.dst = "dst",
                   !.dst0 = fs["dst"],
                   !.md5 = Md5Expected(dataset, "train")])
    /\ UNCHANGED <<fs, dataset>>

cd_check(p) ==
    LET r == pr[p]
        r1 == [r EXCEPT !.did = @ \cup (IF isfile(fs, r.dst) THEN {"md5"} ELSE {})]
    IN /\ At(p, "cd_check")
       /\ IF CacheHit(fs, r.dst, r.md5)
          THEN Set(p, Resume(r1))
          ELSE Set(p, [r1 EXCEPT !.pc = "cd_loop", !.idx = 1])
       /\ UNCHANGED <<fs, dataset>>

\* line 60 left out: after a successful transfer the loop goes on to the
\* next URL
Break_missing(r) == [r EXCEPT !.idx = @ + 1]

\* line 60: a successful transfer leaves the loop for the checksum test
Break(r) == [r EXCEPT !.pc = "cd_verify"]

\* lines 57-64: one turn of the for loop, or its else branch
cd_loop(p) ==
    LET r == pr[p] IN
    /\ At(p, "cd_loop")
    /\ IF r.idx > Len(r.urls)
       THEN /\ Set(p, Raise(r, "RuntimeError_download"))
            /\ UNCHANGED fs
       ELSE LET u == r.urls[r.idx]
                r1 == [r EXCEPT !.tried = Append(@, r.idx), !.did = @ \cup {"transfer"}]
            IN /\ fs' = [fs EXCEPT ![r.dst] = urlretrieve(@, u)]
               /\ IF ~Failed(u)
                  THEN Set(p, Break(r1))
                  ELSE IF ExceptClause(TransferError(u)) = "caught"
                       THEN Set(p, [r1 EXCEPT !.idx = @ + 1])
                       ELSE Set(p, Raise(r1, ExceptClause(TransferError(u))))
    /\ UNCHANGED dataset

\* lines 66-69
cd_verify(p) ==
    LET r == pr[p]
        r1 == [r EXCEPT !.did = @ \cup {"md5"}]
    IN /\ At(p, "cd_verify")
       /\ IF Mismatch(fs, r.dst, r.md5)
          THEN Set(p, Raise(r1, "RuntimeError_md5"))
          ELSE Set(p, Resume(r1))
       /\ UNCHANGED <<fs, dataset>>

(* -------------------------- _ensure_dir_exists ------------------------ *)

\* os.makedirs(path) on the file system f, with outcome o when path is absent:
\* "created", "raced" (someone else created it first) or "denied"
makedirs(f, path, o) ==
    IF f[path].kind # "absent" THEN [fs |-> f, err |-> "OSError"]
    ELSE IF o = "created" THEN [fs |-> [f EXCEPT ![path] = Dir], err |-> "none"]
    ELSE IF o = "raced" THEN [fs |-> [f EXCEPT ![path] = Dir], err |-> "OSError"]
    ELSE [fs |-> f, err |-> "OSError"]

\* lines 43-45 with a bare raise: an existing directory is not tolerated
Reraise_always(f, path) == TRUE

\* line 44: the OSError is re-raised unless path is a directory
Reraise(f, path) == ~isdir(f, path)

Call_ensure_dir_exists(p) ==
    /\ CanCall(p)
    /\ Set(p, [NewCall(pr[p], fs, "ensure") EXCEPT !.pc = "en_makedirs"])
    /\ UNCHANGED <<fs, dataset>>

\* lines 41-43
en_makedirs(p) ==
    LET r == pr[p] IN
    /\ At(p, "en_makedirs")
    /\ \E o \in {"created", "raced", "denied"} :
         LET m == makedirs(fs, "dir", o)
             r1 == [r EXCEPT !.did = @ \cup {"makedirs"}, !.mk = m.err]
         IN /\ fs' = m.fs
            /\ IF m.err = "none"
               THEN Set(p, Resume(r1))
               ELSE Set(p, [r1 EXCEPT !.pc = "en_isdir"])
    /\ UNCHANGED dataset

\* lines 44-45
en_isdir(p) ==
    LET r == pr[p] IN
    /\ At(p, "en_isdir")
    /\ IF Reraise(fs, "dir")
       THEN Set(p, Raise(r, "OSError"))
       ELSE Set(p, Resume(r))
    /\ UNCHANGED <<fs, dataset>>

(* ------------------------------- _extract ----------------------------- *)

\* tarfile.open(src_file, 'r:gz') reads an archive only from a non-empty file
Readable(f, src) == isfile(f, src) /\ f[src].data # 0

\* line 26 changing to dst_dir instead of the saved directory
RestoreTo_dst(r) == r.xdir

\* line 26: the directory the finally clause changes back to
RestoreTo(r) == r.cur_dir

Call_extract(p) ==
    /\ CanCall(p)
    /\ Set(p, [NewCall(pr[p], fs, "extract") EXCEPT
                 !.pc = "ex_chdir", !.src = "dst", !.xdir = "dir"])
    /\ UNCHANGED <<fs, dataset>>

\* lines 20-21: an os.chdir that fails raises before the try block is entered
ex_chdir(p) ==
    LET r == pr[p]
        r1 == [r EXCEPT !.cur_dir = r.cwd, !.did = @ \cup {"extract"}]
    IN /\ At(p, "ex_chdir")
       /\ IF isdir(fs, r.xdir)
          THEN Set(p, [r1 EXCEPT !.cwd = r.xdir, !.pc = "ex_open", !.done = {}])
          ELSE Set(p, Raise(r1, "OSError"))
       /\ UNCHANGED <<fs, dataset>>

\* line 23
ex_open(p) ==
    LET r == pr[p] IN
    /\ At(p, "ex_open")
    /\ IF Readable(fs, r.src)
       THEN Set(p, [r EXCEPT !.pc = "ex_member"])
       ELSE Set(p, [r EXCEPT !.pc = "ex_restore", !.pend = "ReadError"])
    /\ UNCHANGED <<fs, dataset>>

\* line 24: extractall creates the next member (in the archive's order,
\* which the code does not fix), finishes, or fails
ex_member(p) ==
    LET r == pr[p] IN
    /\ At(p, "ex_member")
    /\ IF r.done = Members
       THEN /\ Set(p, [r EXCEPT !.pc = "ex_restore"])
            /\ UNCHANGED fs
       ELSE \/ \E m \in Members \ r.done :
                 /\ fs' = [fs EXCEPT ![m] = File(0)]
                 /\ Set(p, [r EXCEPT !.pc = "ex_write", !.member = m])
            \/ /\ Set(p, [r EXCEPT !.pc = "ex_restore", !.pend = "IOError"])
               /\ UNCHANGED fs
    /\ UNCHANGED dataset

\* line 24: the member's bytes are written, or the write fails half-way
ex_write(p) ==
    LET r == pr[p] IN
    /\ At(p, "ex_write")
    /\ \/ /\ fs' = [fs EXCEPT ![r.member] = File(fs[r.src].data)]
          /\ Set(p, [r EXCEPT !.pc = "ex_member", !.done = @ \cup {r.member},
                              !.member = "none"])
       \/ /\ Set(p, [r EXCEPT !.pc = "ex_restore", !.pend = "IOError", !.member = "none"])
          /\ UNCHANGED fs
    /\ UNCHANGED dataset

\* lines 25-26
ex_restore(p) ==
    LET r == pr[p]
        r1 == [r EXCEPT !.cwd = RestoreTo(r), !.pend = "none"]
    IN /\ At(p, "ex_restore")
       /\ IF r.pend # "none"
          THEN Set(p, Raise(r1, r.pend))
          ELSE Set(p, Resume(r1))
       /\ UNCHANGED <<fs, dataset>>

(* ------------------------- _cached_dataset_load ----------------------- *)

\* line 80 without the short-circuit: every call downloads and extracts
NeedFetch_always(f) == TRUE

\* line 80 with `or` for `and`: one file is enough to skip the download
NeedFetch_or(f) == ~(exists(f, "train") \/ exists(f, "test"))

\* line 80 re-verifying the cached files: anything but the genuine files
\* is downloaded again
NeedFetch_verify(f) == ~CacheValid(f)

\* line 80 guarded against half-written files: an empty train or test file
\* does not count as cached
NeedFetch_nonempty(f) ==
    ~(isfile(f, "train") /\ f["train"].data # 0 /\ isfile(f, "test") /\ f["test"].data # 0)

\* line 80: the download+extract branch is taken
NeedFetch(f) == ~(exists(f, "train") /\ exists(f, "test"))

\* pd.read_csv(path, header=...): the table read from a content
read_csv(c, hdr) == [rows |-> c, header |-> hdr]

\* the error pd.read_csv raises on what is stored at path, or "none"
read_error(f, path) ==
    IF ~isfile(f, path) THEN "IOError"
    ELSE IF f[path].data = 0 THEN "EmptyDataError"
    ELSE "none"

\* line 89 (and 154-155): train is parsed first, then test
Parse(r, f, hdr) ==
    IF read_error(f, "train") # "none" THEN Finish(r, read_error(f, "train"))
    ELSE IF read_error(f, "test") # "none" THEN Finish(r, read_error(f, "test"))
    ELSE Finish([r EXCEPT !.result = [train |-> read_csv(f["train"].data, hdr),
                                      test |-> read_csv(f["test"].data, hdr)]],
                "none")

\* titanic(), amazon() and msrank(): lines 92-110
Call_cached_dataset_load(p) ==
    /\ CanCall(p)
    /\ dataset \in Archives
    /\ \E u \in Behaviours :
         Set(p, [NewCall(pr[p], fs, "load") EXCEPT
                   !.pc = "ld_check", !.urls = <<u>>, !.dst = TmpPath(p),
                   !.src = TmpPath(p), !.md5 = Md5Expected(dataset, "archive")])
    /\ UNCHANGED <<fs, dataset>>

\* lines 77-81
ld_check(p) ==
    LET r == pr[p] IN
    /\ At(p, "ld_check")
    /\ IF NeedFetch(fs)
       THEN Set(p, [r EXCEPT !.pc = "en_makedirs", !.ret = "ld_mkstemp",
                             !.did = @ \cup {"fetch"}])
       ELSE Set(p, [r EXCEPT !.pc = "ld_parse"])
    /\ UNCHANGED <<fs, dataset>>

\* lines 82-85: the temporary file is created empty, then the download starts
ld_mkstemp(p) ==
    LET r == pr[p] IN
    /\ At(p, "ld_mkstemp")
    /\ fs' = [fs EXCEPT ![TmpPath(p)] = File(0)]
    /\ Set(p, [r EXCEPT !.pc = "cd_check", !.ret = "ld_extract", !.dst0 = File(0),
                        !.did = @ \cup {"mkstemp"}])
    /\ UNCHANGED dataset

\* line 86
ld_extract(p) ==
    LET r == pr[p] IN
    /\ At(p, "ld_extract")
    /\ Set(p, [r EXCEPT !.pc = "ex_chdir", !.ret = "ld_finally"])
    /\ UNCHANGED <<fs, dataset>>

\* lines 87-88: os.remove, then the pending exception (if any) goes on
ld_finally(p) ==
    LET r == pr[p]
        r1 == [r EXCEPT !.did = @ \cup {"remove"}, !.pend = "none"]
    IN /\ At(p, "ld_finally")
       /\ fs' = [fs EXCEPT ![TmpPath(p)] = Absent]
       /\ IF r.pend # "none"
          THEN Set(p, Finish(r1, r.pend))
          ELSE Set(p, [r1 EXCEPT !.pc = "ld_parse"])
       /\ UNCHANGED dataset

\* line 89
ld_parse(p) ==
    LET r == pr[p] IN
    /\ At(p, "ld_parse")
    /\ Set(p, Parse(r, fs, header(dataset)))
    /\ UNCHANGED <<fs, dataset>>

(* --------------------------------- adult ------------------------------ *)

\* lines 134-135
Call_adult(p) ==
    /\ CanCall(p)
    /\ dataset = "adult"
    /\ Set(p, [NewCall(pr[p], fs, "adult") EXCEPT !.pc = "en_makedirs", !.ret = "ad_train"])
    /\ UNCHANGED <<fs, dataset>>

\* the two places adult() downloads a file from
Mirrors == {"internal", "public"}

\* lines 140-142 and 147-149 with the tuples written the other way round
AdultMirrors_swapped == <<"public", "internal">>

\* lines 140-142 and 147-149: proxy.sandbox.yandex-team.ru, then
\* archive.ics.uci.edu
AdultMirrors == <<"internal", "public">>

\* the URL tuple of a file, given what each mirror does for it
AdultUrls(b) == [i \in 1..Len(AdultMirrors) |-> b[AdultMirrors[i]]]

\* lines 140-145: two mirrors, the internal storage first
ad_train(p) ==
    LET r == pr[p] IN
    /\ At(p, "ad_train")
    /\ \E b \in [Mirrors -> Behaviours] :
         Set(p, [r EXCEPT !.pc = "cd_check", !.ret = "ad_test", !.urls = AdultUrls(b),
                          !.tried = <<>>, !.dst = "train", !.dst0 = fs["train"],
                          !.md5 = Md5Expected("adult", "train")])
    /\ UNCHANGED <<fs, dataset>>

\* lines 147-152
ad_test(p) ==
    LET r == pr[p] IN
    /\ At(p, "ad_test")
    /\ \E b \in [Mirrors -> Behaviours] :
         Set(p, [r EXCEPT !.pc = "cd_check", !.ret = "ad_parse", !.urls = AdultUrls(b),
                          !.trainTried = r.tried,
                          !.tried = <<>>, !.dst = "test", !.dst0 = fs["test"],
                          !.md5 = Md5Expected("adult", "test")])
    /\ UNCHANGED <<fs, dataset>>

\* lines 154-169
ad_parse(p) ==
    LET r == pr[p] IN
    /\ At(p, "ad_parse")
    /\ Set(p, Parse(r, fs, header("adult")))
    /\ UNCHANGED <<fs, dataset>>

(* --------------------------------- spec ------------------------------- *)

\* the cache directory of the dataset: missing, blocked by a regular file,
\* or a directory holding any train and test files
CacheStates ==
    {[q \in Paths |-> Absent]}
    \cup {[q \in Paths |-> IF q = "dir" THEN File(0) ELSE Absent]}
    \cup {[q \in Paths |-> IF q = "dir" THEN Dir
                           ELSE IF q = "train" THEN a
                           ELSE IF q = "test" THEN b
                           ELSE Absent] : a \in Files \cup {Absent}, b \in Files \cup {Absent}}

Init ==
    /\ dataset \in Datasets
    /\ \/ fs \in CacheStates
       \/ \E d \in Files : fs = [q \in Paths |-> IF q = "dst" THEN d ELSE Absent]
    /\ pr = [p \in {1} |-> IdleProc]

Next ==
    \E p \in Procs :
        \/ Call_cached_download(p)
        \/ cd_check(p)
        \/ cd_loop(p)
        \/ cd_verify(p)
        \/ Call_ensure_dir_exists(p)
        \/ en_makedirs(p)
        \/ en_isdir(p)
        \/ Call_extract(p)
        \/ ex_chdir(p)
        \/ ex_open(p)
        \/ ex_member(p)
        \/ ex_write(p)
        \/ ex_restore(p)
        \/ Call_cached_dataset_load(p)
        \/ ld_check(p)
        \/ ld_mkstemp(p)
        \/ ld_extract(p)
        \/ ld_finally(p)
        \/ ld_parse(p)
        \/ Call_adult(p)
        \/ ad_train(p)
        \/ ad_test(p)
        \/ ad_parse(p)

Spec == Init /\ [][Next]_vars

\* two concurrent invocations of _cached_dataset_load for one dataset: both
\* processes run titanic(), amazon() or msrank(), each makes one call (its
\* last), and the cache starts empty
InitRace ==
    /\ dataset \in Archives
    /\ fs = [q \in Paths |-> Absent]
    /\ pr = [p \in Procs |-> [IdleProc EXCEPT !.calls = MaxCalls - 1]]

NextRace ==
    \E p \in Procs :
        \/ Call_cached_dataset_load(p)
        \/ ld_check(p)
        \/ en_makedirs(p)
        \/ en_isdir(p)
        \/ ld_mkstemp(p)
        \/ cd_check(p)
        \/ cd_loop(p)
        \/ cd_verify(p)
        \/ ld_extract(p)
        \/ ex_chdir(p)
        \/ ex_open(p)
        \/ ex_member(p)
        \/ ex_write(p)
        \/ ex_restore(p)
        \/ ld_finally(p)
        \/ ld_parse(p)

SpecRace == InitRace /\ [][NextRace]_vars

(* ------------------- the calls of _cached_download -------------------- *)

Running == DOMAIN pr

\* the exceptions that leave _cached_download
DlExc == {"AttributeError", "RuntimeError_download", "RuntimeError_md5"}

\* p is inside _cached_download
DlInside(p) == pr[p].pc \in {"cd_check", "cd_loop", "cd_verify"}

\* p's last call of _cached_download has just returned normally
DlReturned(p) ==
    \/ pr[p].pc = "idle" /\ pr[p].op = "download" /\ pr[p].exc = "none"
    \/ pr[p].pc \in {"ad_test", "ad_parse", "ld_extract"}

\* p's last call of _cached_download has just raised e
DlRaised(p, e) ==
    /\ e \in DlExc
    /\ \/ pr[p].pc = "idle" /\ pr[p].op \in {"download", "adult"} /\ pr[p].exc = e
       \/ pr[p].pc = "ld_finally" /\ pr[p].pend = e

DlEnded(p) == DlReturned(p) \/ \E e \in DlExc : DlRaised(p, e)

\* what was at dst when _cached_download was called
HitAtCall(p) == pr[p].dst0.kind = "file" /\ Md5Of(pr[p].dst0.data) = pr[p].md5

StaleAtCall(p) == pr[p].dst0.kind = "file" /\ Md5Of(pr[p].dst0.data) # pr[p].md5

\* the URLs whose transfer the call attempted, and whether one succeeded
Attempted(p) == {pr[p].tried[i] : i \in 1..Len(pr[p].tried)}

Succeeded(p) == {i \in Attempted(p) : ~Failed(pr[p].urls[i])}

(* -------------------------------- claims ------------------------------ *)

\* C1: when dst is a file with the expected MD5 at call time, _cached_download
\* returns normally, attempts no URL transfer and leaves dst as it was,
\* whatever the URL list (empty and unreachable ones included).
C1_CachedFileShortCircuits ==
    \A p \in Running :
        (DlInside(p) \/ DlEnded(p)) /\ HitAtCall(p) =>
            /\ pr[p].pc \notin {"cd_loop", "cd_verify"}
            /\ pr[p].tried = <<>>
            /\ fs[pr[p].dst] = pr[p].dst0
            /\ \A e \in DlExc : ~DlRaised(p, e)

C1_Witness ==
    \E p \in Running :
        /\ pr[p].pc = "idle" /\ pr[p].op = "download" /\ pr[p].exc = "none"
        /\ HitAtCall(p)
        /\ pr[p].urls = <<Refused>>

\* C2: when dst is a file whose MD5 differs from the expected one, a normal
\* return of _cached_download comes only after a transfer from the first URL
\* was attempted and with a file of the expected MD5 at dst.
C2_ChecksumGate ==
    \A p \in Running :
        DlReturned(p) /\ StaleAtCall(p) =>
            /\ pr[p].tried # <<>>
            /\ pr[p].tried[1] = 1
            /\ isfile(fs, pr[p].dst)
            /\ Md5Of(fs[pr[p].dst].data) = pr[p].md5

C2_Witness ==
    \E p \in Running :
        /\ pr[p].pc = "idle" /\ pr[p].op = "download" /\ pr[p].exc = "none"
        /\ StaleAtCall(p)
        /\ pr[p].tried = <<1>>
        /\ fs["dst"] # pr[p].dst0

\* C3: with two URLs, the first failing its transfer and the second serving
\* content of the expected MD5, _cached_download returns normally and dst
\* holds what the second URL serves.
C3_MirrorFallback ==
    \A p \in Running :
        /\ DlEnded(p)
        /\ Len(pr[p].urls) = 2
        /\ 1 \in Attempted(p)
        /\ Failed(pr[p].urls[1])
        /\ ~Failed(pr[p].urls[2])
        /\ Md5Of(pr[p].urls[2].data) = pr[p].md5
        => /\ DlReturned(p)
           /\ fs[pr[p].dst] = File(pr[p].urls[2].data)

\* C4: when every URL fails its transfer (and dst did not hold the expected
\* content), _cached_download raises the transfer-failure RuntimeError and
\* no file with the expected MD5 is at dst afterwards.
C4_TotalFailure ==
    \A p \in Running :
        /\ DlEnded(p)
        /\ ~HitAtCall(p)
        /\ \A i \in 1..Len(pr[p].urls) : Failed(pr[p].urls[i])
        => /\ DlRaised(p, "RuntimeError_download")
           /\ ~(isfile(fs, pr[p].dst) /\ Md5Of(fs[pr[p].dst].data) = pr[p].md5)

\* C5: when a transfer succeeds but the file's MD5 is not the expected one,
\* _cached_download raises the integrity RuntimeError, has attempted no URL
\* after the one that succeeded, and the mismatching file is left at dst.
C5_IntegrityFailure ==
    \A p \in Running :
        /\ \A i \in Succeeded(p) : \A j \in Attempted(p) : j <= i
        /\ DlEnded(p) =>
              \A i \in Succeeded(p) :
                  Md5Of(pr[p].urls[i].data) # pr[p].md5 =>
                      /\ DlRaised(p, "RuntimeError_md5")
                      /\ fs[pr[p].dst] = File(pr[p].urls[i].data)

C5_Witness ==
    \E p \in Running :
        /\ DlRaised(p, "RuntimeError_md5")
        /\ Len(pr[p].urls) = 2
        /\ pr[p].tried = <<1>>
        /\ Md5Of(pr[p].urls[1].data) # pr[p].md5
        /\ ~Failed(pr[p].urls[2])
        /\ Md5Of(pr[p].urls[2].data) = pr[p].md5

(* ---------------------- the accessors and helpers --------------------- *)

Accessors == {"load", "adult"}

\* what the download+extract branch of _cached_dataset_load can do
FetchSteps == {"fetch", "makedirs", "mkstemp", "transfer", "md5", "extract", "remove"}

ExactlyOne(f) == (f["train"] = Absent) # (f["test"] = Absent)

BothPresent(f) == f["train"] # Absent /\ f["test"] # Absent

\* p is inside _extract, between the os.chdir of line 21 and that of line 26
ExInside(p) == pr[p].pc \in {"ex_open", "ex_member", "ex_write", "ex_restore"}

\* p's last call of _ensure_dir_exists has just returned normally / raised
EnReturned(p) ==
    \/ pr[p].pc = "idle" /\ pr[p].op = "ensure" /\ pr[p].exc = "none"
    \/ pr[p].pc \in {"ld_mkstemp", "ad_train"}

EnRaised(p) ==
    /\ pr[p].pc = "idle" /\ pr[p].exc = "OSError"
    /\ \/ pr[p].op \in {"ensure", "adult"}
       \/ pr[p].op = "load" /\ "mkstemp" \notin pr[p].did

\* C6: an accessor called a second time in a row on a valid, populated cache
\* attempts no URL transfer, leaves the cached files as they were, and both
\* calls return the same tables.
C6_AccessorIdempotence ==
    \A p \in Running :
        pr[p].op \in Accessors /\ pr[p].prev.valid0 =>
            /\ pr[p].prev.op = pr[p].op
            /\ CacheValid(pr[p].fs0)
            /\ CacheValid(fs)
            /\ "transfer" \notin pr[p].did
            /\ pr[p].tried = <<>>
            /\ pr[p].pc = "idle" =>
                 /\ pr[p].exc = "none" /\ pr[p].prev.exc = "none"
                 /\ pr[p].result = pr[p].prev.result
                 /\ pr[p].result.train = read_csv(fs["train"].data, header(dataset))
                 /\ pr[p].result.test = read_csv(fs["test"].data, header(dataset))

C6_Witness ==
    \E p \in Running :
        /\ pr[p].pc = "idle" /\ pr[p].op = "adult" /\ pr[p].calls = 2
        /\ pr[p].prev.valid0 /\ pr[p].prev.op = "adult"
        /\ pr[p].result = pr[p].prev.result
        /\ pr[p].result # NoResult

\* C7: _cached_dataset_load takes the download+extract branch exactly when
\* train or test is missing at call time; with both present it makes no
\* directory, no temporary file, no transfer and no checksum; with exactly
\* one present the ensure-dir, download, extract sequence runs.
C7_LoadShortCircuit ==
    \A p \in Running :
        pr[p].op = "load" /\ pr[p].pc # "ld_check" =>
            /\ "fetch" \in pr[p].did <=> ~BothPresent(pr[p].fs0)
            /\ BothPresent(pr[p].fs0) =>
                 /\ pr[p].did = {}
                 /\ pr[p].pc \in {"ld_parse", "idle"}
                 /\ fs = pr[p].fs0
            /\ ExactlyOne(pr[p].fs0) /\ pr[p].pc = "idle" =>
                 /\ {"makedirs", "mkstemp", "transfer", "remove"} \subseteq pr[p].did
                 /\ pr[p].exc \notin DlExc => "extract" \in pr[p].did

C7_Witness ==
    \E p \in Running :
        /\ pr[p].pc = "idle" /\ pr[p].op = "load" /\ pr[p].exc = "none"
        /\ ExactlyOne(pr[p].fs0)
        /\ FetchSteps \subseteq pr[p].did

\* C8: when _cached_dataset_load ends, on any exit path, the temporary file
\* it created is gone; and a call whose directory creation failed never
\* created one.
C8_TempFileCleanup ==
    \A p \in Running :
        /\ pr[p].pc = "idle" => fs[TmpPath(p)] = Absent
        /\ pr[p].op = "load" /\ pr[p].pc = "idle" /\ "mkstemp" \in pr[p].did
             => "remove" \in pr[p].did
        /\ "mkstemp" \in pr[p].did => isdir(fs, "dir")
        /\ EnRaised(p) => "mkstemp" \notin pr[p].did

C8_Witness ==
    \E p \in Running :
        /\ pr[p].pc = "idle" /\ pr[p].op = "load"
        /\ pr[p].exc = "IOError"
        /\ {"mkstemp", "extract", "remove"} \subseteq pr[p].did
        /\ fs[TmpPath(p)] = Absent

\* C9: when _extract ends (normal return, failed open or extraction, failed
\* chdir into dst_dir) the working directory is the one from before the
\* call; dst_dir is the working directory only while the extraction runs.
C9_ExtractRestoresCwd ==
    \A p \in Running :
        /\ ExInside(p) => pr[p].cwd = pr[p].xdir /\ pr[p].cur_dir = "home"
        /\ ~ExInside(p) => pr[p].cwd = "home"

C9_Witness ==
    \E p \in Running :
        /\ pr[p].pc = "idle" /\ pr[p].op = "extract"
        /\ pr[p].exc = "IOError"
        /\ pr[p].done # {}
        /\ pr[p].cwd = "home"

\* C10: _ensure_dir_exists returns normally whenever path is a directory
\* after the creation attempt (created by this call, already there, or
\* created by someone else in between) and raises the OSError exactly when
\* os.makedirs failed and path is not a directory.
C10_EnsureDirIdempotent ==
    \A p \in Running :
        /\ EnReturned(p) => pr[p].mk = "none" \/ isdir(fs, "dir")
        /\ EnRaised(p) => pr[p].mk = "OSError" /\ ~isdir(fs, "dir")
        /\ pr[p].pc = "idle" /\ pr[p].op = "ensure" =>
             /\ isdir(fs, "dir") => pr[p].exc = "none"
             /\ pr[p].exc = "OSError" <=> (pr[p].mk = "OSError" /\ ~isdir(fs, "dir"))
             /\ pr[p].exc \in {"none", "OSError"}

C10_Witness ==
    \E p \in Running :
        /\ pr[p].pc = "idle" /\ pr[p].op = "ensure" /\ pr[p].exc = "none"
        /\ pr[p].fs0["dir"] = Absent
        /\ pr[p].mk = "OSError"
        /\ isdir(fs, "dir")

\* the cached files are there but at least one is not the genuine one
Corrupted(f) == BothPresent(f) /\ ~CacheValid(f)

\* C11 as stated: every accessor, called on a populated cache, recomputes no
\* checksum and attempts no download.
C11_EveryAccessorTrustsCache ==
    \A p \in Running :
        pr[p].op \in Accessors /\ BothPresent(pr[p].fs0) =>
            /\ "md5" \notin pr[p].did
            /\ "transfer" \notin pr[p].did

\* C11 amended: titanic, amazon and msrank (the accessors that go through
\* _cached_dataset_load), called on a populated cache, check presence only:
\* no checksum, no download, the files are parsed as they are, corrupted or
\* not; adult recomputes the checksum of its cached files on every call.
C11_ArchiveAccessorsTrustCache ==
    \A p \in Running :
        /\ pr[p].op = "load" /\ BothPresent(pr[p].fs0) =>
             /\ pr[p].did \cap {"md5", "transfer", "mkstemp", "extract"} = {}
             /\ fs = pr[p].fs0
             /\ pr[p].pc = "idle" /\ pr[p].exc = "none" =>
                  /\ pr[p].result.train.rows = pr[p].fs0["train"].data
                  /\ pr[p].result.test.rows = pr[p].fs0["test"].data
        /\ pr[p].op = "adult" /\ BothPresent(pr[p].fs0) /\ pr[p].pc = "idle" =>
             "md5" \in pr[p].did

C11_Witness ==
    \E p \in Running :
        /\ pr[p].pc = "idle" /\ pr[p].op = "load" /\ pr[p].exc = "none"
        /\ Corrupted(pr[p].fs0)
        /\ pr[p].did = {}
        /\ pr[p].result.train.rows # Genuine(dataset, "train")

\* p is in, or just past, one of adult's two downloads
AdultDownload(p) == pr[p].op = "adult" /\ Len(pr[p].urls) = Len(AdultMirrors)

\* the mirrors contacted by the attempts t, in the order of the attempts
Contacted(t) == [k \in 1..Len(t) |-> AdultMirrors[t[k]]]

\* in the attempts t on the URLs us, the internal mirror comes first and the
\* public one only after an attempt on the internal one that failed
InternalFirst(t, us) ==
    /\ t # <<>> => Contacted(t)[1] = "internal"
    /\ \A k \in 1..Len(t) :
         Contacted(t)[k] = "public" =>
             \E j \in 1..(k - 1) : Contacted(t)[j] = "internal" /\ Failed(us[t[j]])

\* C12: for each of adult's files the internal mirror is attempted before the
\* public one, and the public one only after the internal transfer of that
\* file failed, whatever served the train file; the test file is fetched
\* only once the train file holds the expected content.
C12_AdultMirrorOrder ==
    \A p \in Running :
        AdultDownload(p) =>
            /\ InternalFirst(pr[p].tried, pr[p].urls)
            /\ pr[p].trainTried # <<>> => Contacted(pr[p].trainTried)[1] = "internal"
            /\ pr[p].dst = "train" => pr[p].trainTried = <<>>
            /\ pr[p].dst = "test" =>
                 /\ isfile(fs, "train")
                 /\ Md5Of(fs["train"].data) = Md5Of(Genuine("adult", "train"))

C12_Witness ==
    \E p \in Running :
        /\ pr[p].pc = "idle" /\ pr[p].op = "adult" /\ pr[p].exc = "none"
        /\ pr[p].dst = "test"
        /\ Contacted(pr[p].trainTried) = <<"internal">>
        /\ Contacted(pr[p].tried) = <<"internal">>

\* C13: in one _cached_download call the URLs are attempted in list order,
\* each at most once, URL i only after the transfers from all URLs before it
\* failed, none after a successful transfer: at most len(urls) attempts.
C13_SingleOrderedPass ==
    \A p \in Running :
        /\ Len(pr[p].tried) <= Len(pr[p].urls)
        /\ \A k \in 1..Len(pr[p].tried) :
             /\ pr[p].tried[k] = k
             /\ \A j \in 1..(k - 1) : Failed(pr[p].urls[j])
        /\ DlInside(p) /\ pr[p].pc # "cd_check" => pr[p].idx \in 1..(Len(pr[p].urls) + 1)
        /\ pr[p].pc = "cd_verify" =>
             pr[p].tried # <<>> /\ ~Failed(pr[p].urls[Len(pr[p].tried)])

C13_Witness ==
    \E p \in Running :
        /\ DlReturned(p)
        /\ Len(pr[p].urls) = 2
        /\ pr[p].tried = <<1>>
        /\ ~Failed(pr[p].urls[2])

\* q is extracting and has created, but not finished, a member while both
\* files exist
Extracting(q) ==
    /\ pr[q].op = "load" /\ pr[q].pc = "ex_write"
    /\ BothPresent(fs)
    /\ fs[pr[q].member] = File(0)

\* p skipped download and extraction and parsed what was in the cache
ParsedWithoutFetch(p) ==
    pr[p].op = "load" /\ pr[p].pc = "idle" /\ pr[p].did = {}

\* C14: nothing guards the cache against a concurrent invocation: a process
\* that finds both files at the test of line 80 goes straight to parsing,
\* whatever the other process is doing and whatever the files hold, and what
\* it returns or raises is decided by the bytes present at that moment.  The
\* interleaving of the claim is the state C14_Witness.
C14_UnguardedCache ==
    [][\A p \in Running :
          /\ pr[p].pc = "ld_check" /\ pr'[p].pc # "ld_check" /\ BothPresent(fs) =>
                pr'[p].pc = "ld_parse" /\ pr'[p].did = {} /\ fs' = fs
          /\ pr[p].pc = "ld_parse" /\ pr'[p].pc # "ld_parse" =>
                /\ pr'[p].pc = "idle"
                /\ fs' = fs
                /\ fs["train"] = File(0) \/ fs["test"] = File(0) =>
                     pr'[p].exc = "EmptyDataError" \/ pr'[p].exc = "IOError"
                /\ pr'[p].exc = "none" =>
                     /\ pr'[p].result.train.rows = fs["train"].data
                     /\ pr'[p].result.test.rows = fs["test"].data]_vars

C14_Witness ==
    \E p \in Running, q \in Running :
        /\ p # q
        /\ Extracting(q)
        /\ pr[q].fs0 = [x \in Paths |-> Absent]
        /\ ParsedWithoutFetch(p)
        /\ pr[p].exc = "EmptyDataError"

\* the file at path has the MD5 m
HasMd5(path, m) == fs[path].kind = "file" /\ Md5Of(fs[path].data) = m

\* p, in _cached_dataset_load, is at or inside the _extract call of line 86
LoadExtracting(p) ==
    pr[p].op = "load" /\ pr[p].pc \in {"ld_extract", "ex_chdir", "ex_open", "ex_member", "ex_write"}

\* C15: when _cached_download returns normally, dst is a file with the
\* expected MD5; so adult() parses only files that both passed the checksum
\* comparison in that call, and _cached_dataset_load extracts only an
\* archive whose MD5 matched.
C15_DownloadPostcondition ==
    \A p \in Running :
        /\ DlReturned(p) => HasMd5(pr[p].dst, pr[p].md5)
        /\ pr[p].op = "adult" /\ pr[p].pc = "ad_parse" =>
             /\ HasMd5("train", Md5Of(Genuine("adult", "train")))
             /\ HasMd5("test", Md5Of(Genuine("adult", "test")))
             /\ "md5" \in pr[p].did
        /\ pr[p].op = "adult" /\ pr[p].pc = "idle" /\ pr[p].exc = "none" =>
             /\ pr[p].result.train.rows = Genuine("adult", "train")
             /\ pr[p].result.test.rows = Genuine("adult", "test")
        /\ LoadExtracting(p) =>
             /\ HasMd5(TmpPath(p), Md5Of(Genuine(dataset, "archive")))
             /\ {"transfer", "md5"} \subseteq pr[p].did
        /\ pr[p].op = "load" /\ "extract" \in pr[p].did =>
             \A m \in pr[p].done : fs[m] = File(Genuine(dataset, "archive"))

C15_Witness ==
    \E p \in Running :
        /\ pr[p].op = "adult" /\ pr[p].pc = "ad_parse"
        /\ pr[p].trainTried = <<1>>
        /\ pr[p].tried = <<1>>
        /\ pr[p].fs0["train"] = Absent

\* the download of p's _cached_dataset_load call did not deliver the
\* archive: its last transfer failed, or delivered a file of another MD5
DownloadFailed(p) ==
    /\ pr[p].op = "load" /\ pr[p].tried # <<>>
    /\ LET u == pr[p].urls[pr[p].tried[Len(pr[p].tried)]]
       IN Failed(u) \/ Md5Of(u.data) # pr[p].md5

\* the files in the cache directory
CacheFiles(f) == [m \in Members |-> f[m]]

\* C16: a _cached_dataset_load call whose download fails (transfer or
\* integrity) never starts the extraction and ends by raising; the files in
\* the cache directory are those from before the call, so the cache is still
\* incomplete and the following call takes the download branch again.
C16_FailedDownloadKeepsCache ==
    \A p \in Running :
        /\ DownloadFailed(p) =>
             /\ "extract" \notin pr[p].did
             /\ CacheFiles(fs) = CacheFiles(pr[p].fs0)
             /\ ~BothPresent(fs)
             /\ pr[p].pc = "idle" =>
                  /\ pr[p].exc \in DlExc
                  /\ fs[TmpPath(p)] = Absent
                  /\ isdir(fs, "dir")
        /\ pr[p].op = "load" /\ pr[p].pc = "idle" /\ pr[p].exc \in DlExc =>
             DownloadFailed(p) \/ pr[p].urls = <<>>
        /\ pr[p].op = "load" /\ pr[p].prev.op = "load" /\ pr[p].prev.exc \in DlExc =>
             /\ ~BothPresent(pr[p].fs0)
             /\ pr[p].pc # "ld_check" => "fetch" \in pr[p].did

C16_Witness ==
    \E p \in Running :
        /\ pr[p].op = "load" /\ pr[p].pc = "idle"
        /\ pr[p].prev.op = "load" /\ pr[p].prev.exc = "RuntimeError_md5"
        /\ {"fetch", "transfer", "extract"} \subseteq pr[p].did
        /\ pr[p].exc = "none"

====
